---- MODULE Spec2Model ----
(***************************************************************************)
(* A model of the chunk / fan-out / aggregate pipelines of                 *)
(* qna_pair_generate.py (QA pairs) and summary.py (hierarchical summary).  *)
(*                                                                         *)
(*   SpecSeg   chunk_text_with_overlap run on bounded inputs               *)
(*   Spec      main() and run_pipeline() on small inputs, rich responses   *)
(*   SpecPool  the same two pipelines on inputs with more chunks than      *)
(*             workers, plain responses                                    *)
(***************************************************************************)
EXTENDS Integers, Sequences, FiniteSets, TLC

VARIABLES
    \* ---- chunk_text_with_overlap (qna_pair_generate.py:51-62)
    seg_pc,         \* "idle" | "call" | "loop" | "done"
    text,           \* the argument text
    chunk_size,     \* the argument chunk_size
    overlap,        \* the argument overlap
    words,          \* local: text.split()
    start,          \* local: window start
    chunks,         \* the chunk list (SpecSeg: chunk texts; pipelines: see below)
    \* ---- main() (qna_pair_generate.py:169-191), run_pipeline() (summary.py:79-84)
    mode,           \* "qa" | "summary" | "seg"
    pc,             \* stage of the run
    src,            \* what is on disk: [present, size] (size in words / documents)
    menu,           \* the answers the generation service may give in this run
    err,            \* the exception that ended the run, "" if none
    \* ---- ThreadPoolExecutor, futures and as_completed
    max_workers,    \* size of the pool
    pool,           \* "none" | "open" | "shutdown"
    status,         \* per task: "new" | "queued" | "running" | "finished"
    outcome,        \* per task: the state of its future
    gen_calls,      \* per task: generation calls issued for it
    done_order,     \* tasks in the order their futures finished
    ac_finished,    \* as_completed: futures found finished when it started
    ac_waiter,      \* as_completed: waiter.finished_futures, completion order
    consumed,       \* tasks in the order the for-loop received them
    \* ---- aggregation and output
    all_qa,         \* process_chunks_parallel: the result list
    seen_questions, \* process_chunks_parallel: the set of normalized questions
    results,        \* summarize_chunks_parallel: the partial summaries
    reduce_calls,   \* merge_partial_summaries: llm.invoke calls issued
    final_summary,  \* run_pipeline: the merged summary
    out_writes,     \* number of times the output file was opened for writing
    out_file,       \* content of the output file; <<>> while out_writes = 0
    \* ---- generate_qa_from_chunk, the parsing loop (qna_pair_generate.py)
    parse_pc,       \* "idle" | "call" | "loop" | "done"
    out_lines,      \* lines: content.split("\n")
    line_ix,        \* index of the line the for-loop takes next
    current_q,      \* the pending question, NoQuestion for None
    qa_list,        \* the records appended so far
    \* ---- the environment of a run
    caller,         \* "main": the script runs; "direct": process_chunks_parallel
                    \* is called with a max_workers argument
    hung            \* the tasks whose generation call never returns

segVars == <<seg_pc, text, chunk_size, overlap, words, start>>
runVars == <<mode, src, menu, caller, hung>>
poolVars == <<max_workers, pool, status, outcome, gen_calls, done_order,
              ac_finished, ac_waiter, consumed>>
aggVars == <<all_qa, seen_questions, results, reduce_calls, final_summary>>
outVars == <<out_writes, out_file>>
parseVars == <<parse_pc, out_lines, line_ix, current_q, qa_list>>

vars == <<seg_pc, text, chunk_size, overlap, words, start, chunks,
          mode, pc, src, menu, err,
          max_workers, pool, status, outcome, gen_calls, done_order,
          ac_finished, ac_waiter, consumed,
          all_qa, seen_questions, results, reduce_calls, final_summary,
          out_writes, out_file,
          parse_pc, out_lines, line_ix, current_q, qa_list, caller, hung>>

pipeVars == <<mode, pc, src, menu, err, caller, hung,
          max_workers, pool, status, outcome, gen_calls, done_order,
          ac_finished, ac_waiter, consumed,
          all_qa, seen_questions, results, reduce_calls, final_summary,
          out_writes, out_file>>

\* ------------------------------------------------------------------ bounds
MaxWords     == 5   \* longest enumerated text, in words
MaxChunkSize == 3   \* largest enumerated chunk_size
MaxOverlap   == 3   \* largest enumerated overlap (reaches overlap >= chunk_size)
MaxIter      == 4   \* iterations of a non-advancing window that are followed
MaxLines     == 4   \* longest enumerated model output, in lines
CallMaxWorkers == 2 \* largest max_workers argument of an enumerated direct call

\* ------------------------------------------------------------- arithmetic
Min(a, b) == IF a < b THEN a ELSE b
Max(a, b) == IF a > b THEN a ELSE b

\* ceil(a / b) for b > 0
CeilDiv(a, b) == IF a <= 0 THEN 0 ELSE ((a + b - 1) \div b)

\* ------------------------------------------------------------------ text
\* A text is a sequence whose elements are single whitespace characters (WS)
\* and maximal runs of non-whitespace characters (a word each), so no two
\* words are adjacent in a text.
WS == " "
Alphabet == {"a", "b"}

\* The text made of the words ws with `lead` whitespace characters in front,
\* `gap` between consecutive words and `trail` behind.
MkText(ws, lead, gap, trail) ==
    LET n == Len(ws)
        L == lead + n + (IF n = 0 THEN 0 ELSE (n - 1) * gap) + trail
    IN [i \in 1..L |->
            LET p == i - lead - 1
            IN IF p < 0 \/ n = 0 THEN WS
               ELSE IF p \div (1 + gap) < n /\ p % (1 + gap) = 0
                    /\ p <= (n - 1) * (1 + gap)
                    THEN ws[(p \div (1 + gap)) + 1]
                    ELSE WS]

IsWord(c) == c # WS

\* str.split(): the maximal non-whitespace runs, in order
Split(t) == SelectSeq(t, IsWord)

\* " ".join(ws)
Join(ws) == MkText(ws, 0, 1, 0)

\* Python's s[i:j] on a list, negative indices included
PyIndex(i, n) == IF i < 0 THEN Max(i + n, 0) ELSE Min(i, n)
PySlice(s, i, j) == SubSeq(s, PyIndex(i, Len(s)) + 1, PyIndex(j, Len(s)))

\* ------------------------------------------- chunk_text_with_overlap
\* line 59: end = min(start + chunk_size, len(words))
WindowEnd(st, size, n) == Min(st + size, n)

\* line 61: start += chunk_size - overlap
NextStart_NoOverlap(st, size, ov) == st + size
NextStart(st, size, ov) == st + size - ov

\* line 58: while start < len(words)
LoopCond_OffByOne(st, n) == st + 1 < n
LoopCond(st, n) == st < n

\* line 60: " ".join(words[start:end])
ChunkAt(ws, st, size) == Join(PySlice(ws, st, WindowEnd(st, size, Len(ws))))

\* lines 55-57
SegEnter ==
    /\ seg_pc = "call"
    /\ words' = Split(text)
    /\ chunks' = <<>>
    /\ start' = 0
    /\ seg_pc' = "loop"
    /\ UNCHANGED <<text, chunk_size, overlap>>
    /\ UNCHANGED <<pipeVars, parseVars>>

\* lines 58-61, one iteration
SegLoop ==
    /\ seg_pc = "loop"
    /\ LoopCond(start, Len(words))
    /\ (overlap >= chunk_size => Len(chunks) < MaxIter)
    /\ chunks' = Append(chunks, ChunkAt(words, start, chunk_size))
    /\ start' = NextStart(start, chunk_size, overlap)
    /\ UNCHANGED <<seg_pc, text, chunk_size, overlap, words>>
    /\ UNCHANGED <<pipeVars, parseVars>>

\* line 62
SegReturn ==
    /\ seg_pc = "loop"
    /\ ~LoopCond(start, Len(words))
    /\ seg_pc' = "done"
    /\ UNCHANGED <<text, chunk_size, overlap, words, start, chunks>>
    /\ UNCHANGED <<pipeVars, parseVars>>

\* ------------------------------------------------------ program constants
MainChunkSize     == 300   \* main(): chunk_size=300
MainOverlap       == 50    \* main(): overlap=50
MainMaxWorkers    == 5     \* main(): max_workers=5
SummaryMaxWorkers == 5     \* summary.py: MAX_WORKERS

\* ------------------------------------------------------------------ bounds
MaxChunks  == 3   \* Spec: most chunks / documents of a run

\* SpecPool: the smallest batch on which a pool of w workers is full
PoolTasks(w) == w + 1

\* ------------------------------------------------------ strings and lines
\* A string of the generation output is a sequence of characters.
SetMin(S) == CHOOSE x \in S : \A y \in S : x <= y
SetMax(S) == CHOOSE x \in S : \A y \in S : x >= y

\* str.strip()
Strip(s) ==
    LET keep == {i \in 1..Len(s) : s[i] # WS}
    IN IF keep = {} THEN <<>> ELSE SubSeq(s, SetMin(keep), SetMax(keep))

\* str.lower()
LowerChar(c) == CASE c = "W" -> "w" [] c = "V" -> "v" [] OTHER -> c
Lower(s) == [i \in 1..Len(s) |-> LowerChar(s[i])]

\* A line of content.strip().split("\n"): tag is what startswith() sees
\* ("Q:", "A:" or "" for any other line), body is line[2:].
Line(tag, body) == [tag |-> tag, body |-> body]

\* lines 113-119: the record appended for a pair
QARecord(q, a) == [user |-> q, assistant |-> a]

\* line 107: current_q = None
NoQuestion == [some |-> FALSE, txt |-> <<>>]

\* lines 109-120: one pass of the parsing loop; st = [q, out]
ParseLine_KeepQ(st, line) ==
    IF line.tag = "Q:"
    THEN [st EXCEPT !.q = [some |-> TRUE, txt |-> Strip(line.body)]]
    ELSE IF line.tag = "A:" /\ st.q.some /\ st.q.txt # <<>>
    THEN [st EXCEPT !.out = Append(st.out, QARecord(st.q.txt, Strip(line.body)))]
    ELSE st
ParseLine(st, line) ==
    IF line.tag = "Q:"
    THEN [st EXCEPT !.q = [some |-> TRUE, txt |-> Strip(line.body)]]
    ELSE IF line.tag = "A:" /\ st.q.some /\ st.q.txt # <<>>
    THEN [q |-> NoQuestion,
          out |-> Append(st.out, QARecord(st.q.txt, Strip(line.body)))]
    ELSE st

RECURSIVE ParseFrom(_, _, _)
ParseFrom(lines, k, st) ==
    IF k > Len(lines) THEN st.out
    ELSE ParseFrom(lines, k + 1, ParseLine(st, lines[k]))

\* lines 102-121
ParseQA(lines) == ParseFrom(lines, 1, [q |-> NoQuestion, out |-> <<>>])

\* An answer of the generation service to one call:
\*   api = "ok"     the call returns, message.content is `content`
\*   api = "none"   the call returns, message.content is None
\*   api = "raise"  the call raises
Answer(api, content) == [api |-> api, content |-> content]

\* lines 89-121: what generate_qa_from_chunk does with the answer
\* (call records how the generation call itself ended)
GenerateQA(ans) ==
    IF ans.api = "raise"
    THEN [state |-> "returned", value |-> <<>>, call |-> ans.api]
    ELSE IF ans.api = "none"
    THEN [state |-> "raised", value |-> <<>>, call |-> ans.api]
    ELSE [state |-> "returned", value |-> ParseQA(ans.content), call |-> ans.api]

\* summary.py lines 37-44: summarize_chunk returns resp.content (the summary
\* of document i is written i) or lets the exception of llm.invoke through
Summarize(ans, i) ==
    IF ans.api = "ok" THEN [state |-> "returned", value |-> i, call |-> ans.api]
    ELSE [state |-> "raised", value |-> 0, call |-> ans.api]

Pending == [state |-> "pending", value |-> <<>>, call |-> "pending"]

\* line 145: the user question of a record, stripped and lower-cased
UserMsg(qa) == Lower(Strip(qa.user))

\* lines 145-148: one record of a payload; st = [all, seen]
MergeOne_NoLower(st, qa) ==
    IF Strip(qa.user) # <<>> /\ Strip(qa.user) \notin st.seen
    THEN [all |-> Append(st.all, qa), seen |-> st.seen \cup {Strip(qa.user)}]
    ELSE st
MergeOne_KeepLast(st, qa) ==
    IF UserMsg(qa) = <<>> THEN st
    ELSE [all |-> Append(SelectSeq(st.all, LAMBDA r : UserMsg(r) # UserMsg(qa)), qa),
          seen |-> st.seen \cup {UserMsg(qa)}]
MergeOne_NoSeenAdd(st, qa) ==
    IF UserMsg(qa) # <<>> /\ UserMsg(qa) \notin st.seen
    THEN [all |-> Append(st.all, qa), seen |-> st.seen]
    ELSE st
MergeOne(st, qa) ==
    IF UserMsg(qa) # <<>> /\ UserMsg(qa) \notin st.seen
    THEN [all |-> Append(st.all, qa), seen |-> st.seen \cup {UserMsg(qa)}]
    ELSE st

RECURSIVE MergeFrom(_, _, _)
\* lines 143-148: the loop over qa_pairs
MergeFrom(pairs, k, st) ==
    IF k > Len(pairs) THEN st
    ELSE MergeFrom(pairs, k + 1, MergeOne(st, pairs[k]))

\* --------------------------------------------------------- chunk windows
RECURSIVE WindowsFrom(_, _, _, _)
\* lines 57-62 on a text of n words: the windows <<start, end>> of the chunks
WindowsFrom(st, n, size, ov) ==
    IF LoopCond(st, n)
    THEN <<(<<st, WindowEnd(st, size, n)>>)>>
            \o WindowsFrom(NextStart(st, size, ov), n, size, ov)
    ELSE <<>>

\* ------------------------------------------------------------ the pool
NTasks == Len(status)
Tasks == 1..NTasks
TasksIn(st) == {i \in Tasks : status[i] = st}
Running == TasksIn("running")

PipeBlank ==
    /\ err = ""
    /\ max_workers = 0
    /\ pool = "none"
    /\ status = <<>>
    /\ outcome = <<>>
    /\ gen_calls = <<>>
    /\ done_order = <<>>
    /\ ac_finished = {}
    /\ ac_waiter = <<>>
    /\ consumed = <<>>
    /\ all_qa = <<>>
    /\ seen_questions = {}
    /\ results = <<>>
    /\ reduce_calls = 0
    /\ final_summary = <<>>
    /\ out_writes = 0
    /\ out_file = <<>>

\* ThreadPoolExecutor(max_workers=w) and the futures dict of n submissions to come
OpenPool(w, n) ==
    /\ pool' = "open"
    /\ max_workers' = w
    /\ status' = [i \in 1..n |-> "new"]
    /\ outcome' = [i \in 1..n |-> Pending]
    /\ gen_calls' = [i \in 1..n |-> 0]
    /\ done_order' = <<>>
    /\ ac_finished' = {}
    /\ ac_waiter' = <<>>
    /\ consumed' = <<>>

ParseBlank ==
    /\ parse_pc = "idle"
    /\ out_lines = <<>>
    /\ line_ix = 0
    /\ current_q = NoQuestion
    /\ qa_list = <<>>

\* ------------------------------------------------- main(), QA pipeline
\* lines 170-182: load every file of the data folder, return if no text
QALoad ==
    /\ mode = "qa" /\ pc = "Loading"
    /\ IF ~src.present
       THEN pc' = "Failed" /\ err' = "FileNotFoundError"
       ELSE IF src.size = 0
       THEN pc' = "NoOp" /\ err' = err
       ELSE pc' = "Segmenting" /\ err' = err
    /\ UNCHANGED <<segVars, parseVars, chunks, runVars, poolVars, aggVars, outVars>>

\* line 185: chunks = chunk_text_with_overlap(all_text, 300, 50); a chunk is
\* kept as the window <<start, end>> of the words it holds
QASegment ==
    /\ mode = "qa" /\ pc = "Segmenting"
    /\ chunks' = WindowsFrom(0, src.size, MainChunkSize, MainOverlap)
    /\ pc' = "Creating"
    /\ UNCHANGED <<segVars, parseVars, runVars, err, poolVars, aggVars, outVars>>

\* lines 130-137: all_qa = [], seen_questions = set(), the executor
QACreatePool ==
    /\ mode = "qa" /\ pc = "Creating"
    /\ all_qa' = <<>>
    /\ seen_questions' = {}
    /\ OpenPool(MainMaxWorkers, Len(chunks))
    /\ pc' = "Submitting"
    /\ UNCHANGED <<segVars, parseVars, chunks, runVars, err, results, reduce_calls,
                   final_summary, outVars>>

\* lines 126-137: process_chunks_parallel(chunks, max_workers=w) called with
\* a pool size of its caller's choice
QACallPool ==
    /\ mode = "qa" /\ pc = "Called" /\ caller = "direct"
    /\ all_qa' = <<>>
    /\ seen_questions' = {}
    /\ \E w \in 2..CallMaxWorkers : OpenPool(w, Len(chunks))
    /\ pc' = "Submitting"
    /\ UNCHANGED <<segVars, parseVars, chunks, runVars, err, results,
                   reduce_calls, final_summary, outVars>>

\* line 138: executor.submit for the next chunk of enumerate(chunks)
Submit ==
    /\ pc = "Submitting"
    /\ TasksIn("new") # {}
    /\ status' = [status EXCEPT ![SetMin(TasksIn("new"))] = "queued"]
    /\ UNCHANGED <<segVars, parseVars, chunks, runVars, pc, err, max_workers, pool, outcome,
                   gen_calls, done_order, ac_finished, ac_waiter, consumed,
                   aggVars, outVars>>

\* a worker thread is free for the work item at the head of the queue
WorkerFree_Unbounded == TRUE
WorkerFree_Serial == Running = {}
WorkerFree == Cardinality(Running) < max_workers

\* a worker takes the oldest queued work item and calls the task function
\* (process_single_chunk, lines 133-135; summarize_chunk, summary.py:37-39),
\* which issues the generation call
StartTask ==
    /\ pool = "open"
    /\ TasksIn("queued") # {}
    /\ WorkerFree
    /\ LET i == SetMin(TasksIn("queued"))
       IN /\ status' = [status EXCEPT ![i] = "running"]
          /\ gen_calls' = [gen_calls EXCEPT ![i] = @ + 1]
    /\ UNCHANGED <<segVars, parseVars, chunks, runVars, pc, err, max_workers, pool, outcome,
                   done_order, ac_finished, ac_waiter, consumed, aggVars, outVars>>

\* the generation call of task i returns or raises and the future finishes
\* with outcome o; an as_completed waiter, once installed, records it in
\* completion order
FinishFuture_Retry(i, o) ==
    /\ status[i] = "running"
    /\ i \notin hung
    /\ IF o.call # "ok" /\ gen_calls[i] < 2
       THEN /\ status' = [status EXCEPT ![i] = "queued"]
            /\ UNCHANGED <<outcome, done_order, ac_waiter>>
       ELSE /\ status' = [status EXCEPT ![i] = "finished"]
            /\ outcome' = [outcome EXCEPT ![i] = o]
            /\ done_order' = Append(done_order, i)
            /\ ac_waiter' = IF pc = "Collecting" THEN Append(ac_waiter, i)
                            ELSE ac_waiter
    /\ UNCHANGED <<segVars, parseVars, chunks, runVars, pc, err, max_workers, pool,
                   gen_calls, ac_finished, consumed, aggVars, outVars>>
FinishFuture(i, o) ==
    /\ status[i] = "running"
    /\ i \notin hung
    /\ status' = [status EXCEPT ![i] = "finished"]
    /\ outcome' = [outcome EXCEPT ![i] = o]
    /\ done_order' = Append(done_order, i)
    /\ ac_waiter' = IF pc = "Collecting" THEN Append(ac_waiter, i) ELSE ac_waiter
    /\ UNCHANGED <<segVars, parseVars, chunks, runVars, pc, err, max_workers, pool,
                   gen_calls, ac_finished, consumed, aggVars, outVars>>

\* lines 67-121 in a worker: the generation call of chunk i ends
QAFinishTask ==
    /\ mode = "qa"
    /\ \E i \in Running : \E ans \in menu : FinishFuture(i, GenerateQA(ans))

\* line 139: as_completed(futures) starts: the futures already finished are
\* put in a set, the others get the waiter
AsCompletedBegin ==
    /\ pc = "Submitting"
    /\ TasksIn("new") = {}
    /\ ac_finished' = TasksIn("finished")
    /\ ac_waiter' = <<>>
    /\ pc' = "Collecting"
    /\ UNCHANGED <<segVars, parseVars, chunks, runVars, err, max_workers, pool, status,
                   outcome, gen_calls, done_order, consumed, aggVars, outVars>>

\* The futures as_completed may yield next: any member of the set of futures
\* that were finished when it started (a set is popped in no defined order),
\* then the waiter's list in completion order.
NextYield ==
    IF ac_finished # {} THEN ac_finished
    ELSE IF ac_waiter # <<>> THEN {Head(ac_waiter)} ELSE {}

\* line 139: the for-loop receives future i
Yield(i) ==
    /\ i \in NextYield
    /\ ac_finished' = ac_finished \ {i}
    /\ ac_waiter' = IF ac_finished = {} THEN Tail(ac_waiter) ELSE ac_waiter
    /\ consumed' = Append(consumed, i)

\* lines 141-150: the body of the for-loop for future i
QAHandle_NoCatch(i) ==
    IF outcome[i].state = "raised"
    THEN /\ pc' = "Failed" /\ err' = "AttributeError"
         /\ UNCHANGED <<all_qa, seen_questions>>
    ELSE LET m == MergeFrom(outcome[i].value, 1,
                            [all |-> all_qa, seen |-> seen_questions])
         IN /\ all_qa' = m.all
            /\ seen_questions' = m.seen
            /\ UNCHANGED <<pc, err>>
QAHandle(i) ==
    IF outcome[i].state = "raised"
    THEN UNCHANGED <<pc, err, all_qa, seen_questions>>
    ELSE LET m == MergeFrom(outcome[i].value, 1,
                            [all |-> all_qa, seen |-> seen_questions])
         IN /\ all_qa' = m.all
            /\ seen_questions' = m.seen
            /\ UNCHANGED <<pc, err>>

\* lines 139-150: one pass of the for-loop over as_completed(futures)
QACollect ==
    /\ mode = "qa" /\ pc = "Collecting"
    /\ \E i \in NextYield : Yield(i) /\ QAHandle(i)
    /\ UNCHANGED <<segVars, parseVars, chunks, runVars, max_workers, pool, status, outcome,
                   gen_calls, done_order, results, reduce_calls, final_summary,
                   outVars>>

\* every future has been received by the for-loop
AllConsumed_AnyOne == consumed # <<>>
AllConsumed == Len(consumed) = NTasks

\* lines 137, 152: the loop ends, the with-block shuts the pool down, return
QAReturn ==
    /\ mode = "qa" /\ pc = "Collecting"
    /\ AllConsumed
    /\ pool' = "shutdown"
    /\ pc' = IF caller = "main" THEN "Persisting" ELSE "Returned"
    /\ UNCHANGED <<segVars, parseVars, chunks, runVars, err, max_workers, status, outcome,
                   gen_calls, done_order, ac_finished, ac_waiter, consumed,
                   aggVars, outVars>>

\* lines 191, 157-164: save_qa_to_jsonl(all_qa, OUTPUT_PATH)
QASave ==
    /\ mode = "qa" /\ pc = "Persisting"
    /\ out_writes' = out_writes + 1
    /\ out_file' = all_qa
    /\ pc' = "Done"
    /\ UNCHANGED <<segVars, parseVars, chunks, runVars, err, poolVars, aggVars>>

\* ------------------------------------------ run_pipeline(), summary
\* summary.py lines 80, 21-27: load_data
SumLoad ==
    /\ mode = "summary" /\ pc = "Loading"
    /\ IF ~src.present
       THEN pc' = "Failed" /\ err' = "FileNotFoundError"
       ELSE pc' = "Segmenting" /\ err' = err
    /\ UNCHANGED <<segVars, parseVars, chunks, runVars, poolVars, aggVars, outVars>>

\* summary.py lines 81, 30-34: split_text; document i of the splitter's
\* output is written i, a text without content gives no document
SumSplit ==
    /\ mode = "summary" /\ pc = "Segmenting"
    /\ chunks' = [i \in 1..src.size |-> i]
    /\ pc' = "Creating"
    /\ UNCHANGED <<segVars, parseVars, runVars, err, poolVars, aggVars, outVars>>

\* summary.py lines 47-50: results = [], the executor
SumCreatePool ==
    /\ mode = "summary" /\ pc = "Creating"
    /\ results' = <<>>
    /\ OpenPool(SummaryMaxWorkers, Len(chunks))
    /\ pc' = "Submitting"
    /\ UNCHANGED <<segVars, parseVars, chunks, runVars, err, all_qa, seen_questions,
                   reduce_calls, final_summary, outVars>>

\* summary.py lines 37-44 in a worker: llm.invoke of document i ends
SumFinishTask ==
    /\ mode = "summary"
    /\ \E i \in Running : \E ans \in menu : FinishFuture(i, Summarize(ans, i))

\* summary.py lines 53-57: the body of the for-loop for future i
SumHandle(i) ==
    IF outcome[i].state = "raised"
    THEN UNCHANGED results
    ELSE results' = Append(results, outcome[i].value)

\* summary.py lines 52-57: one pass of the for-loop
SumCollect ==
    /\ mode = "summary" /\ pc = "Collecting"
    /\ \E i \in NextYield : Yield(i) /\ SumHandle(i)
    /\ UNCHANGED <<segVars, parseVars, chunks, runVars, pc, err, max_workers, pool, status,
                   outcome, gen_calls, done_order, all_qa, seen_questions,
                   reduce_calls, final_summary, outVars>>

\* summary.py lines 50, 59: the loop ends, the pool shuts down, return results
SumReturn ==
    /\ mode = "summary" /\ pc = "Collecting"
    /\ AllConsumed
    /\ pool' = "shutdown"
    /\ pc' = "Reducing"
    /\ UNCHANGED <<segVars, parseVars, chunks, runVars, err, max_workers, status, outcome,
                   gen_calls, done_order, ac_finished, ac_waiter, consumed,
                   aggVars, outVars>>

\* (variant: the output file is opened before the reduce call is known to
\* have returned)
SumMerge_WriteFirst ==
    /\ mode = "summary" /\ pc = "Reducing"
    /\ reduce_calls' = reduce_calls + 1
    /\ out_writes' = out_writes + 1
    /\ \E ok \in BOOLEAN :
        IF ok
        THEN /\ final_summary' = <<"merged", results>>
             /\ out_file' = <<"merged", results>>
             /\ pc' = "Done" /\ err' = err
        ELSE /\ final_summary' = final_summary
             /\ out_file' = <<>>
             /\ pc' = "Failed" /\ err' = "ReduceError"
    /\ UNCHANGED <<segVars, parseVars, chunks, runVars, poolVars, all_qa, seen_questions,
                   results>>

\* summary.py lines 83, 62-70: merge_partial_summaries(partial_summaries);
\* llm.invoke returns the merged text or raises
SumMerge ==
    /\ mode = "summary" /\ pc = "Reducing"
    /\ reduce_calls' = reduce_calls + 1
    /\ \E ok \in BOOLEAN :
        IF ok
        THEN /\ final_summary' = <<"merged", results>>
             /\ pc' = "Persisting" /\ err' = err
        ELSE /\ final_summary' = final_summary
             /\ pc' = "Failed" /\ err' = "ReduceError"
    /\ UNCHANGED <<segVars, parseVars, chunks, runVars, poolVars, all_qa, seen_questions,
                   results, outVars>>

\* summary.py lines 84, 73-76: save_summary(final_summary)
SumSave ==
    /\ mode = "summary" /\ pc = "Persisting"
    /\ out_writes' = out_writes + 1
    /\ out_file' = final_summary
    /\ pc' = "Done"
    /\ UNCHANGED <<segVars, parseVars, chunks, runVars, err, poolVars, aggVars>>

\* ------------------------------------------------------- specifications
\* the generation outputs of the runs of Spec
QW == <<" ", "W">>
Qw == <<"w">>
Qv == <<"v", " ">>
A1 == <<"a">>
A2 == <<"b", " ">>
RichContents ==
    { <<Line("Q:", QW), Line("A:", A1)>>,
      <<Line("Q:", Qw), Line("A:", A2)>>,
      <<Line("Q:", Qv), Line("A:", A1), Line("", A1), Line("Q:", Qw), Line("A:", A1)>>,
      <<Line("A:", A1), Line("Q:", <<WS>>), Line("A:", A2), Line("Q:", Qv)>> }
RichMenu ==
    {Answer("ok", c) : c \in RichContents}
        \cup {Answer("raise", <<>>), Answer("none", <<>>)}
SummaryMenu == {Answer("ok", <<>>), Answer("raise", <<>>)}
\* the generation outputs of the runs of SpecPool: every QA call answers the
\* same pair, every summary call raises
PlainQAMenu == {Answer("ok", <<Line("Q:", QW), Line("A:", A1)>>)}
PlainSummaryMenu == {Answer("raise", <<>>)}

\* the smallest text that main() cuts into k chunks
WordsForChunks(k) == (k - 1) * (MainChunkSize - MainOverlap) + 1

Source(present, size) == [present |-> present, size |-> size]

PipeInit(qaSizes, sumSizes, qaMenu, sumMenu) ==
    /\ seg_pc = "idle"
    /\ text = <<>>
    /\ chunk_size = 0
    /\ overlap = 0
    /\ words = <<>>
    /\ start = 0
    /\ chunks = <<>>
    /\ pc = "Loading"
    /\ \/ /\ mode = "qa"
          /\ src \in {Source(FALSE, 0)} \cup {Source(TRUE, n) : n \in qaSizes}
          /\ menu = qaMenu
       \/ /\ mode = "summary"
          /\ src \in {Source(FALSE, 0)} \cup {Source(TRUE, n) : n \in sumSizes}
          /\ menu = sumMenu
    /\ PipeBlank
    /\ ParseBlank

Init ==
    /\ PipeInit({0} \cup {WordsForChunks(k) : k \in 1..MaxChunks}, 0..MaxChunks,
                RichMenu, SummaryMenu)
    /\ caller = "main"
    /\ hung = {}

PoolInit ==
    /\ PipeInit({WordsForChunks(PoolTasks(MainMaxWorkers))},
                {PoolTasks(SummaryMaxWorkers)},
                PlainQAMenu, PlainSummaryMenu)
    /\ caller = "main"
    /\ hung = {}

Next ==
    \/ QALoad \/ QASegment \/ QACreatePool
    \/ Submit \/ StartTask \/ AsCompletedBegin
    \/ QAFinishTask \/ QACollect \/ QAReturn \/ QASave
    \/ SumLoad \/ SumSplit \/ SumCreatePool
    \/ SumFinishTask \/ SumCollect \/ SumReturn \/ SumMerge \/ SumSave

Spec == Init /\ [][Next]_vars

SpecPool == PoolInit /\ [][Next]_vars

\* ------------------------------------------------- pipeline properties
\* the normalized question of a record: stripped and lower-cased
NormQ(r) == Lower(Strip(r.user))

Range(f) == {f[i] : i \in DOMAIN f}

\* a step in which a queued task starts
StartsTask == \E i \in Tasks : status[i] = "queued" /\ status'[i] = "running"

\* C1: during the fan-out of a QA run and of a summary run at most
\* max_workers generation calls have started and not yet returned or raised,
\* and a queued task starts only from a state in which a worker is free.
PoolBound ==
    /\ [](Cardinality(Running) <= max_workers)
    /\ [][StartsTask => Cardinality(Running) < max_workers]_vars

\* the pool is full while a task waits in the queue
PoolBoundWitness ==
    /\ pool = "open"
    /\ Cardinality(Running) = max_workers
    /\ TasksIn("queued") # {}
    /\ TasksIn("finished") = {}

\* the tasks whose generation call succeeded, and their parsed payloads
Succeeded == {i \in Tasks : outcome[i].call = "ok"}
FailedCalls == {i \in Tasks : outcome[i].call \in {"raise", "none"}}
PayloadRecords == UNION {Range(outcome[i].value) : i \in Succeeded}

\* C2: a failing generation call does not abort the QA run: every task still
\* finishes and is received, the artifact holds only records of succeeding
\* chunks and every question of theirs, and a run with a usable record ends
\* in success with a non-empty artifact.
QAFailureIsolation ==
    (mode = "qa" /\ pool # "none") =>
        /\ pc # "Failed" /\ err = ""
        /\ pc \in {"Persisting", "Done"} =>
                \A i \in Tasks : status[i] = "finished" /\ i \in Range(consumed)
        /\ pc = "Done" =>
                /\ out_writes = 1
                /\ Range(out_file) \subseteq PayloadRecords
                /\ {NormQ(r) : r \in Range(out_file)}
                        = {NormQ(r) : r \in PayloadRecords}
                /\ PayloadRecords # {} => Len(out_file) > 0

\* a finished QA run in which one call raised, one returned no content and
\* one gave records
QAFailureIsolationWitness ==
    /\ mode = "qa" /\ pc = "Done"
    /\ \E i, j, k \in Tasks :
        /\ outcome[i].call = "raise"
        /\ outcome[j].call = "none"
        /\ outcome[k].call = "ok" /\ Len(outcome[k].value) > 0
    /\ Len(out_file) > 0

NoTwoShareQuestion(recs) ==
    \A i, j \in 1..Len(recs) : i # j => NormQ(recs[i]) # NormQ(recs[j])

\* C3: no two records of the QA result list, nor of the artifact, have the
\* same normalized question.
QANoDuplicateQuestions ==
    mode = "qa" =>
        /\ NoTwoShareQuestion(all_qa)
        /\ out_writes > 0 => NoTwoShareQuestion(out_file)

\* two received payloads hold questions that differ as written and are equal
\* once normalized, and the list holds one of them next to another question
QANoDuplicateWitness ==
    /\ mode = "qa" /\ pc = "Done"
    /\ \E i, j \in Range(consumed) :
        /\ i # j
        /\ \E r \in Range(outcome[i].value) : \E t \in Range(outcome[j].value) :
                r.user # t.user /\ NormQ(r) = NormQ(t)
    /\ Len(out_file) >= 2

RECURSIVE ConcatPayloads(_, _)
\* the payloads of the tasks order[k..], one after the other
ConcatPayloads(order, k) ==
    IF k > Len(order) THEN <<>>
    ELSE (IF outcome[order[k]].state = "returned"
          THEN outcome[order[k]].value ELSE <<>>)
            \o ConcatPayloads(order, k + 1)

RECURSIVE FirstOccurrences(_, _, _)
\* recs[k..] without the records whose normalized question is in `have` or
\* earlier in recs
FirstOccurrences(recs, k, have) ==
    IF k > Len(recs) THEN <<>>
    ELSE IF NormQ(recs[k]) \in have \/ NormQ(recs[k]) = <<>>
    THEN FirstOccurrences(recs, k + 1, have)
    ELSE <<recs[k]>> \o FirstOccurrences(recs, k + 1, have \cup {NormQ(recs[k])})

EmptyInputNoOp ==
    (src.present /\ src.size = 0) =>
        /\ pool = "none"
        /\ \A i \in Tasks : gen_calls[i] = 0
        /\ reduce_calls = 0
        /\ out_writes = 0

\* C11: a summary run with no successful partial summary issues no reduce
\* call and writes no output file.
SumEmptySkipsReduce ==
    (mode = "summary" /\ pool = "shutdown" /\ results = <<>>) =>
        /\ reduce_calls = 0
        /\ out_writes = 0
        /\ pc \in {"Reducing", "Failed"}

\* C12: a QA run with no usable record never reaches Persisting and writes
\* no artifact file.
QAEmptyResultFails ==
    mode = "qa" =>
        /\ pc = "Persisting" => all_qa # <<>>
        /\ out_writes > 0 => out_file # <<>>

\* C13: in a QA run no record is in the result list and no question is in
\* the seen set while a generation task is still to be submitted, queued or
\* running.
QAStageBarrier ==
    (mode = "qa" /\ pool = "open" /\ \E i \in Tasks : status[i] # "finished") =>
        /\ all_qa = <<>>
        /\ seen_questions = {}

SumPartialsInIndexOrder ==
    (mode = "summary" /\ pc \in {"Reducing", "Persisting", "Done"}) =>
        /\ Range(results) = {i \in Tasks : outcome[i].state = "returned"}
        /\ \A i, j \in 1..Len(results) : i < j => results[i] < results[j]

\* C17: the generation call of a chunk is issued exactly once, when its task
\* starts, whether it then succeeds or fails; a finished task is never put
\* back into the pool.
NoRetry ==
    /\ [](\A i \in Tasks :
            gen_calls[i] = IF status[i] \in {"running", "finished"} THEN 1 ELSE 0)
    /\ [](pool = "shutdown" => \A i \in Tasks : gen_calls[i] = 1)
    /\ [][\A i \in Tasks : status[i] = "finished" => status'[i] = "finished"]_vars

\* a QA run and a summary run have ended with a call that failed
NoRetryWitness ==
    /\ pool = "shutdown"
    /\ NTasks >= 2
    /\ \E i, j \in Tasks :
            outcome[i].call \in {"raise", "none"} /\ outcome[j].call = "ok"

IsPrefix(a, b) == Len(a) <= Len(b) /\ \A k \in 1..Len(a) : a[k] = b[k]

\* C19: at every point of process_chunks_parallel seen_questions is the set
\* of the normalized questions of all_qa, both have the same size, no record
\* of all_qa has an empty normalized question, and all_qa only grows.
SeenSetConsistent ==
    /\ [](mode = "qa" =>
            /\ seen_questions = {NormQ(r) : r \in Range(all_qa)}
            /\ Len(all_qa) = Cardinality(seen_questions)
            /\ \A r \in Range(all_qa) : NormQ(r) # <<>>)
    /\ [][IsPrefix(all_qa, all_qa')]_vars

\* the loop has kept two records and dropped a third whose question was seen
SeenSetWitness ==
    /\ mode = "qa" /\ pc = "Collecting"
    /\ Len(all_qa) >= 2
    /\ \E i \in Range(consumed) : \E r \in Range(outcome[i].value) :
            r \notin Range(all_qa) /\ NormQ(r) \in seen_questions

\* ------------------------------------------- segmenter specification
WordSeqs == UNION {[1..n -> Alphabet] : n \in 0..MaxWords}

\* the 1000-word text of the documented scenario
ScenarioWords == [i \in 1..1000 |-> "a"]

SegInputs ==
    {<<MkText(ws, lead, gap, trail), c, o>> :
        ws \in WordSeqs, lead \in 0..1, gap \in 1..2, trail \in 0..1,
        c \in 1..MaxChunkSize, o \in 0..MaxOverlap}
    \cup {<<Join(ScenarioWords), 300, 50>>}

SegInit ==
    /\ \E inp \in SegInputs :
        /\ text = inp[1]
        /\ chunk_size = inp[2]
        /\ overlap = inp[3]
    /\ seg_pc = "call"
    /\ words = <<>>
    /\ start = 0
    /\ chunks = <<>>
    /\ mode = "seg"
    /\ pc = "Idle"
    /\ src = [present |-> FALSE, size |-> 0]
    /\ menu = {}
    /\ caller = "main"
    /\ hung = {}
    /\ PipeBlank
    /\ ParseBlank

SegNext == SegEnter \/ SegLoop \/ SegReturn

SpecSeg == SegInit /\ [][SegNext]_vars

\* ------------------------------------------------ segmenter properties
FirstN(s, n) == SubSeq(s, 1, Min(n, Len(s)))
LastN(s, n) == SubSeq(s, Max(Len(s) - n, 0) + 1, Len(s))

\* the tokens of the k-th chunk produced so far (k = 0, 1, ...)
ChunkTokens(k) == Split(chunks[k + 1])

SegRunning == seg_pc \in {"loop", "done"}
SegDone == seg_pc = "done"

\* C5: with overlap < chunk_size the k-th chunk is exactly the tokens at
\* offsets [k*(C-O), min(k*(C-O)+C, T)); a chunk is produced for every k with
\* k*(C-O) < T and for no other k; 1000 tokens with C = 300, O = 50 give
\* [0,300), [250,550), [500,800), [750,1000).
SegWindowsExact ==
    (SegRunning /\ overlap < chunk_size) =>
        LET T == Len(words)
            step == chunk_size - overlap
        IN /\ \A k \in 0..(Len(chunks) - 1) :
                /\ k * step < T
                /\ ChunkTokens(k) =
                        SubSeq(words, k * step + 1, Min(k * step + chunk_size, T))
           /\ SegDone => Len(chunks) = Cardinality({k \in 0..T : k * step < T})
           /\ (SegDone /\ T = 1000 /\ chunk_size = 300 /\ overlap = 50) =>
                /\ Len(chunks) = 4
                /\ ChunkTokens(0) = SubSeq(words, 1, 300)
                /\ ChunkTokens(1) = SubSeq(words, 251, 550)
                /\ ChunkTokens(2) = SubSeq(words, 501, 800)
                /\ ChunkTokens(3) = SubSeq(words, 751, 1000)

\* a finished run with overlap, three or more chunks and a short last chunk
SegWindowsWitness ==
    /\ SegDone
    /\ 0 < overlap /\ overlap < chunk_size
    /\ Len(chunks) >= 3
    /\ Len(ChunkTokens(Len(chunks) - 1)) < chunk_size
    /\ \E i, j \in 1..Len(words) : words[i] # words[j]

\* C6: the number of chunks is ceil((T - O) / (C - O)) when T > O and 1
\* otherwise (stated here for a non-empty text; the empty text is C10's case).
SegChunkCount ==
    (SegDone /\ overlap < chunk_size /\ Len(words) > 0) =>
        Len(chunks) = IF Len(words) > overlap
                      THEN CeilDiv(Len(words) - overlap, chunk_size - overlap)
                      ELSE 1

\* C7: the trailing O tokens of each chunk equal the leading O tokens of the
\* next one.
SegOverlapInvariant ==
    (SegDone /\ overlap < chunk_size) =>
        \A k \in 0..(Len(chunks) - 2) :
            LastN(ChunkTokens(k), overlap) = FirstN(ChunkTokens(k + 1), overlap)

RECURSIVE Reconstruct(_, _)
\* the first C-O tokens of every chunk from the k-th on but the last,
\* followed by the whole last chunk
Reconstruct(k, n) ==
    IF k >= n THEN <<>>
    ELSE IF k = n - 1 THEN ChunkTokens(k)
    ELSE FirstN(ChunkTokens(k), chunk_size - overlap) \o Reconstruct(k + 1, n)

\* C8: the non-overlapping prefixes of the chunks, then the whole last chunk,
\* are the original token sequence.
SegCoverage ==
    (SegDone /\ overlap < chunk_size) => Reconstruct(0, Len(chunks)) = words

\* a finished run over several overlapping chunks of a text of distinct words
SegCoverageWitness ==
    /\ SegDone
    /\ 0 < overlap /\ overlap < chunk_size
    /\ Len(chunks) >= 2
    /\ Len(words) = MaxWords
    /\ words[1] # words[2]
    /\ text # Join(words)

\* C9: a call with overlap >= chunk_size on a non-empty text produces no
\* chunk (it is rejected before the window loop runs).
SegRejectsBadOverlap ==
    (SegRunning /\ overlap >= chunk_size /\ Len(words) > 0) => Len(chunks) = 0


\* ---------------------------------------------- parser specification
\* lines 102-107: lines = content.split("\n"), qa_list = [], current_q = None
ParseEnter ==
    /\ parse_pc = "call"
    /\ line_ix' = 1
    /\ current_q' = NoQuestion
    /\ qa_list' = <<>>
    /\ parse_pc' = "loop"
    /\ UNCHANGED <<out_lines, segVars, chunks, pipeVars>>

\* lines 108-120: one pass of `for line in lines`
ParseStep ==
    /\ parse_pc = "loop"
    /\ line_ix <= Len(out_lines)
    /\ LET st == ParseLine([q |-> current_q, out |-> qa_list], out_lines[line_ix])
       IN /\ current_q' = st.q
          /\ qa_list' = st.out
    /\ line_ix' = line_ix + 1
    /\ UNCHANGED <<parse_pc, out_lines, segVars, chunks, pipeVars>>

\* line 121: return qa_list
ParseReturn ==
    /\ parse_pc = "loop"
    /\ line_ix > Len(out_lines)
    /\ parse_pc' = "done"
    /\ UNCHANGED <<out_lines, line_ix, current_q, qa_list, segVars, chunks,
                   pipeVars>>

\* the lines of a model output: questions with and without text, answers,
\* and a line that starts with neither "Q:" nor "A:"
LineMenu ==
    {Line("Q:", Qw), Line("Q:", Qv), Line("Q:", <<WS>>),
     Line("A:", A1), Line("A:", A2), Line("", A1)}

LineSeqs == UNION {[1..n -> LineMenu] : n \in 0..MaxLines}

ParseInit ==
    /\ out_lines \in LineSeqs
    /\ parse_pc = "call"
    /\ line_ix = 0
    /\ current_q = NoQuestion
    /\ qa_list = <<>>
    /\ seg_pc = "idle"
    /\ text = <<>>
    /\ chunk_size = 0
    /\ overlap = 0
    /\ words = <<>>
    /\ start = 0
    /\ chunks = <<>>
    /\ mode = "parse"
    /\ pc = "Idle"
    /\ src = [present |-> FALSE, size |-> 0]
    /\ menu = {}
    /\ caller = "main"
    /\ hung = {}
    /\ PipeBlank

ParseNext == ParseEnter \/ ParseStep \/ ParseReturn

SpecParse == ParseInit /\ [][ParseNext]_vars

\* --------------------------------------------------- parser properties
\* the Q: lines before line j with no A: line between them and line j
PendingQ(ls, j) ==
    {i \in 1..(j - 1) :
        ls[i].tag = "Q:" /\ \A m \in (i + 1)..(j - 1) : ls[m].tag # "A:"}

\* line j is an A: line with a pending Q: line (whose text, if needText, is
\* not empty once stripped)
Emits(ls, j, needText) ==
    /\ ls[j].tag = "A:"
    /\ PendingQ(ls, j) # {}
    /\ needText => Strip(ls[SetMax(PendingQ(ls, j))].body) # <<>>

RECURSIVE PairsFrom(_, _, _, _)
\* the records of the emitting lines among ls[j..n], each pairing the most
\* recent pending Q: line with the A: line
PairsFrom(ls, j, n, needText) ==
    IF j > n THEN <<>>
    ELSE (IF Emits(ls, j, needText)
          THEN <<QARecord(Strip(ls[SetMax(PendingQ(ls, j))].body),
                          Strip(ls[j].body))>>
          ELSE <<>>)
            \o PairsFrom(ls, j + 1, n, needText)

\* C16 as claimed: the parser returns one record per A: line that has a
\* pending Q: line before it with no A: line in between, paired with the
\* most recent such Q: line, and nothing else.
ParseEveryPendingPair ==
    parse_pc = "done" => qa_list = PairsFrom(out_lines, 1, Len(out_lines), FALSE)

\* C16 as amended: the parser takes every line and returns one record per
\* A: line whose most recent pending Q: line has a non-empty question text,
\* and nothing else; after each line the list holds the records of the
\* lines taken so far.
ParsePairsWithQuestionText ==
    /\ parse_pc = "loop" =>
            qa_list = PairsFrom(out_lines, 1, line_ix - 1, TRUE)
    /\ parse_pc = "done" =>
            /\ line_ix = Len(out_lines) + 1
            /\ qa_list = PairsFrom(out_lines, 1, Len(out_lines), TRUE)
            /\ qa_list = ParseQA(out_lines)

\* an output whose first answer follows a question without text and whose
\* second answer follows a question with text has been parsed to one record
ParsePairsWitness ==
    /\ parse_pc = "done"
    /\ Len(qa_list) = 1
    /\ \E j, k \in 1..Len(out_lines) :
            /\ j < k
            /\ Emits(out_lines, j, FALSE) /\ ~Emits(out_lines, j, TRUE)
            /\ Emits(out_lines, k, TRUE)


\* ------------------------------------------ specification with fairness
\* the generation outputs of the runs of SpecLive
LiveQAMenu == {Answer("ok", <<Line("Q:", Qw), Line("A:", A1)>>), Answer("raise", <<>>)}

\* no call hangs, or the call of one chunk does
HungChoices == {{}} \cup {{h} : h \in 1..MaxChunks}

\* a direct call of process_chunks_parallel on n chunks
DirectInit ==
    /\ seg_pc = "idle"
    /\ text = <<>>
    /\ chunk_size = 0
    /\ overlap = 0
    /\ words = <<>>
    /\ start = 0
    /\ \E n \in 1..MaxChunks :
            chunks = WindowsFrom(0, WordsForChunks(n), MainChunkSize, MainOverlap)
    /\ mode = "qa"
    /\ pc = "Called"
    /\ src = Source(FALSE, 0)
    /\ menu = LiveQAMenu
    /\ caller = "direct"
    /\ hung \in HungChoices
    /\ PipeBlank
    /\ ParseBlank

LiveInit ==
    \/ /\ PipeInit({0} \cup {WordsForChunks(k) : k \in 1..MaxChunks}, 0..MaxChunks,
                   LiveQAMenu, SummaryMenu)
       /\ caller = "main"
       /\ hung \in HungChoices
    \/ DirectInit
    \/ SegInit

LiveNext == Next \/ QACallPool \/ SegNext

\* the thread that runs the script (or the caller's thread): its next statement
MainStep ==
    \/ QALoad \/ QASegment \/ QACreatePool \/ QACallPool
    \/ Submit \/ AsCompletedBegin \/ QACollect \/ QAReturn \/ QASave
    \/ SumLoad \/ SumSplit \/ SumCreatePool
    \/ SumCollect \/ SumReturn \/ SumMerge \/ SumSave
    \/ SegNext

\* the generation call of task i, if it is not one that hangs, returns or raises
TaskReturns(i) ==
    /\ i \in Tasks
    /\ \/ mode = "qa" /\ \E ans \in menu : FinishFuture(i, GenerateQA(ans))
       \/ mode = "summary" /\ \E ans \in menu : FinishFuture(i, Summarize(ans, i))

\* the main thread runs on, an idle worker takes queued work, and a call
\* that is not hung ends
Fairness ==
    /\ WF_vars(MainStep)
    /\ WF_vars(StartTask)
    /\ \A i \in 1..MaxChunks : WF_vars(TaskReturns(i))

SpecLive == LiveInit /\ [][LiveNext]_vars /\ Fairness

\* ------------------------------------------------- liveness properties
\* C18: with a pool of at least two workers and one generation call that
\* never returns, every other task is eventually started, finishes, and is
\* received by the for-loop over as_completed.
HungCallDoesNotBlock ==
    \A i \in 1..MaxChunks :
        (/\ pool = "open" /\ max_workers >= 2
         /\ hung \cap Tasks # {}
         /\ i \in Tasks \ hung)
            ~> (i \in Tasks /\ status[i] = "finished" /\ i \in Range(consumed))

\* a pool of fewer workers than tasks: one worker is held by the hung call,
\* and every other task has been received
HungCallWitness ==
    /\ pool = "open" /\ pc = "Collecting"
    /\ NTasks > max_workers
    /\ hung # {} /\ hung \subseteq Running
    /\ Range(consumed) = Tasks \ hung

Terminal ==
    IF mode = "seg" THEN seg_pc = "done"
    ELSE /\ pc \in {"Done", "Failed", "NoOp", "Returned"}
         /\ pool \in {"none", "shutdown"}
         /\ \A i \in Tasks : status[i] = "finished"

\* C20: when overlap < chunk_size and no generation call hangs, the run
\* reaches a terminal state with every task finished and the pool shut down;
\* and the run is past the for-loop over as_completed only if every task is
\* finished, so it stays there while a call has not returned.
RunTerminates ==
    /\ ((mode = "seg" => overlap < chunk_size) /\ hung = {}) => <>Terminal
    /\ [](pc \in {"Persisting", "Reducing", "Returned", "Done"} =>
            /\ pool = "shutdown"
            /\ \A i \in Tasks : status[i] = "finished")
    /\ [](hung \cap Running # {} => pc \in {"Submitting", "Collecting"})

\* a run of three tasks on two workers has returned
RunTerminatesWitness ==
    /\ Terminal
    /\ NTasks > max_workers
    /\ max_workers >= 2
    /\ \E i \in Tasks : outcome[i].call = "raise"

====
